---------------------------- MODULE Spec2Model ----------------------------
(***************************************************************************)
(* A model of react-piano-visualizer: the MIDI file encoder                *)
(* (generateMIDIFile, encodeVariableLength), the performance recorder      *)
(* (handleKeyPress, handleKeyRelease, toggleRecording, clearRecording),    *)
(* the replay scheduler (replayRecording, stopReplay) and the note         *)
(* lifecycle (createVisualNote, endVisualNote, the cleanup sweep of        *)
(* animationLoop), all of src/src/components/PianoVisualizer.jsx.          *)
(***************************************************************************)
EXTENDS Integers, Sequences, FiniteSets, TLC

(***************************************************************************)
(* Program constants.                                                      *)
(***************************************************************************)
ticksPerQuarter == 480
defaultVelocity == 64
minDuration == 100
throttleMs == 30
cleanupInterval == 1000
animationDuration == 3500
replayEndBuffer == 100
firstMidiNote == 21

\* JavaScript null / undefined (an absent velocity, a duration not yet set,
\* the id createVisualNote returns when it creates nothing).
Null == -1

(***************************************************************************)
(* Bounds of the model.                                                    *)
(***************************************************************************)
MaxNotes == 2
VlqSmallMax == 300
MaxPresses == 2       \* key presses of the player that are not ignored
MaxReplays == 1       \* replays the player starts
MaxExports == 2       \* clicks on the export button

Horizon == 5000       \* the clock stops this many ms after the page was loaded

\* Date.now() when the page was loaded: the zero of the timestamps that
\* requestAnimationFrame hands to its callback.
TimeOrigin == 100000

\* The keys played (key ids of C4 and C#4), and the presses as <<key id,
\* velocity>>: C4 with the mouse (no velocity), C#4 on a controller
\* (velocity 1..127). With replays the player plays the controller only.
PlayedKeys == {39, 40}
Presses == {<<39, Null>>, <<40, 100>>}
SoloPresses == {<<40, 100>>}

\* The messages of a controller: note-off and note-on on two channels, a
\* control change; the pitches at and just outside the ends of the table.
MidiStatuses == {128, 137, 144, 153, 176}
MidiPitches == {20, 21, 108, 109}
MidiVelocities == {0, 100}

\* The keys that are ever pressed: those played and those of MidiPitches.
ThrottledKeys == PlayedKeys \cup {0, 87}

\* The gaps between the events of the player, in milliseconds: by these the
\* clock moves, in this order (and it moves to the time a timer is due).
TimeSteps == <<40, 3600, 250>>

VARIABLES
  now,                    \* Date.now()
  stepsDone,              \* how many of the TimeSteps the clock has made
  pressesLeft,            \* how many more presses the player makes
  replaysLeft,            \* how many more replays the player starts
  held,                   \* the keys a player holds down (live input)
  recEpoch,               \* when the recording in progress was started, or null
  pressedKeys,            \* useState: Set of key ids
  isRecording,            \* useState
  isReplaying,            \* useState
  recordedNotes,          \* useState: array of RecordedNote
  activeNotes,            \* useState: Map key id -> ActiveNote, in insertion order
  visualNotes,            \* useState: array of VisualNote
  recordingStartTimeRef,  \* useRef: the epoch of the recording, or null
  replayTimeoutRefs,      \* useRef: the handles stopReplay clears
  timers,                 \* the pending setTimeout callbacks, in creation order
  noteIdCounter,          \* useRef
  lastKeyPressTime,       \* useRef: Map "visual-<key id>" -> time
  lastCleanupTime,        \* animationLoop's closure variable
  encNotes,    \* the note list handed to generateMIDIFile
  midiFile,    \* the bytes generateMIDIFile returned (<<>> before the call)
  vlqValue,    \* the value handed to encodeVariableLength
  vlqBytes,    \* the bytes encodeVariableLength returned (<<>> before the call)
  exportAlerts,   \* how many times exportMIDI has shown its alert
  exportedFiles   \* how many files exportMIDI has handed to the browser

encVars ==
  <<encNotes, midiFile, vlqValue, vlqBytes, exportAlerts, exportedFiles>>

appVars ==
  <<pressedKeys, isRecording, isReplaying, recordedNotes, activeNotes,
    visualNotes, recordingStartTimeRef, replayTimeoutRefs, timers,
    noteIdCounter, lastKeyPressTime, lastCleanupTime>>

envVars == <<now, stepsDone, pressesLeft, replaysLeft, held, recEpoch>>

vars == <<envVars, appVars, encVars>>

(***************************************************************************)
(* The MIDI file encoder.                                                  *)
(***************************************************************************)

\* JavaScript truthiness of a number-or-null value: null, undefined and 0 are
\* falsy.
Truthy(v) == v # Null /\ v # 0

\* Math.round of (ms * ticksPerQuarter) / 1000 for an integer ms >= 0. The
\* quotient is a multiple of 1/25, so it is never a tie and never within
\* floating-point error of one.
MsToTicks(ms) == (ms * ticksPerQuarter + 500) \div 1000

header == <<77, 84, 104, 100, 0, 0, 0, 6, 0, 0, 0, 1, 1, 224>>

\* The loop with push in place of unshift: least significant group first.
RECURSIVE encodeVariableLengthLoop_Push(_, _)
encodeVariableLengthLoop_Push(value, bytes) ==
  IF value > 0
    THEN encodeVariableLengthLoop_Push(value \div 128,
                                       bytes \o <<(value % 128) + 128>>)
    ELSE bytes

\* while (value > 0) { bytes.unshift((value & 0x7f) | 0x80); value >>= 7 }
RECURSIVE encodeVariableLengthLoop(_, _)
encodeVariableLengthLoop(value, bytes) ==
  IF value > 0
    THEN encodeVariableLengthLoop(value \div 128,
                                  <<(value % 128) + 128>> \o bytes)
    ELSE bytes

encodeVariableLength(value) ==
  encodeVariableLengthLoop(value \div 128, <<value % 128>>)

\* The events of a note with the note-off at the rounded sum of startTime and
\* duration.
NoteEvents_RoundedSum(note) ==
  << [time |-> MsToTicks(note.startTime),
      data |-> <<144, note.midiNote,
                 IF Truthy(note.velocity) THEN note.velocity
                                          ELSE defaultVelocity>>],
     [time |-> MsToTicks(note.startTime + note.duration),
      data |-> <<128, note.midiNote, 0>>] >>

\* The events of a note without the default of an unset velocity: the byte an
\* undefined value becomes in the Uint8Array is 0.
NoteEvents_NoDefault(note) ==
  << [time |-> MsToTicks(note.startTime),
      data |-> <<144, note.midiNote,
                 IF Truthy(note.velocity) THEN note.velocity ELSE 0>>],
     [time |-> MsToTicks(note.startTime) + MsToTicks(note.duration),
      data |-> <<128, note.midiNote, 0>>] >>

\* The two events a note contributes, note-on then note-off.
NoteEvents(note) ==
  LET startTime == MsToTicks(note.startTime)
      duration  == MsToTicks(note.duration)
  IN << [time |-> startTime,
         data |-> <<144, note.midiNote,
                    IF Truthy(note.velocity) THEN note.velocity
                                             ELSE defaultVelocity>>],
        [time |-> startTime + duration,
         data |-> <<128, note.midiNote, 0>>] >>

\* notes.forEach pushes each note's two events in list order.
CollectEvents(notes) ==
  [k \in 1..(2 * Len(notes)) |->
     NoteEvents(notes[(k + 1) \div 2])[2 - (k % 2)]]

\* A sort that puts events of equal time in reverse insertion order.
SortRank_TiesReversed(events, i) ==
  Cardinality({ j \in 1..Len(events) :
                  \/ events[j].time < events[i].time
                  \/ events[j].time = events[i].time /\ j > i }) + 1

\* events.sort((a, b) => a.time - b.time): Array.prototype.sort is stable, so
\* an event goes after every event of a smaller time and after the earlier
\* events of the same time.
SortRank(events, i) ==
  Cardinality({ j \in 1..Len(events) :
                  \/ events[j].time < events[i].time
                  \/ events[j].time = events[i].time /\ j < i }) + 1

SortEvents(events) ==
  [k \in 1..Len(events) |->
     events[CHOOSE i \in 1..Len(events) : SortRank(events, i) = k]]

\* What one event adds to trackData: its delta-time to the event before it
\* (currentTime starts at 0), then its three data bytes.
EventBytes(events, k) ==
  LET currentTime == IF k = 1 THEN 0 ELSE events[k - 1].time
      deltaTime == events[k].time - currentTime
  IN encodeVariableLength(deltaTime) \o events[k].data

\* The bytes of events lo..hi in order.
RECURSIVE EncodeEvents(_, _, _)
EncodeEvents(events, lo, hi) ==
  IF lo > hi THEN <<>>
  ELSE IF lo = hi THEN EventBytes(events, lo)
  ELSE LET mid == (lo + hi) \div 2
       IN EncodeEvents(events, lo, mid) \o EncodeEvents(events, mid + 1, hi)

endOfTrack == <<0, 255, 47, 0>>

TrackData(notes) ==
  LET events == SortEvents(CollectEvents(notes))
  IN EncodeEvents(events, 1, Len(events)) \o endOfTrack

\* The chunk header with the length taken before the end-of-track marker was
\* pushed.
trackHeader_BeforeEnd(trackData) ==
  <<77, 84, 114, 107,
    ((Len(trackData) - 4) \div 16777216) % 256,
    ((Len(trackData) - 4) \div 65536) % 256,
    ((Len(trackData) - 4) \div 256) % 256,
    (Len(trackData) - 4) % 256>>

trackHeader(trackData) ==
  <<77, 84, 114, 107,
    (Len(trackData) \div 16777216) % 256,
    (Len(trackData) \div 65536) % 256,
    (Len(trackData) \div 256) % 256,
    Len(trackData) % 256>>

generateMIDIFile(notes) ==
  LET trackData == TrackData(notes)
  IN header \o trackHeader(trackData) \o trackData

(***************************************************************************)
(* The note lifecycle: createVisualNote, endVisualNote.                    *)
(***************************************************************************)

\* A number read from a value that may be null: null - x is 0 - x.
ToNumber(v) == IF v = Null THEN 0 ELSE v

Max(a, b) == IF a >= b THEN a ELSE b

\* The twelve note names, each as the sequence of its characters.
noteNames ==
  << <<"C">>, <<"C", "#">>, <<"D">>, <<"D", "#">>, <<"E">>, <<"F">>,
     <<"F", "#">>, <<"G">>, <<"G", "#">>, <<"A">>, <<"A", "#">>, <<"B">> >>

keyCount == 88
firstNoteIndex == 9

\* noteName.includes("#")
IncludesSharp(noteName) == \E c \in 1..Len(noteName) : noteName[c] = "#"

\* The variables of the loop of generateKeyMapping at the start of iteration
\* i: each iteration adds one to midiNote and to noteIndex, and a noteIndex
\* that reaches 12 goes back to 0 and adds one to octave.
LoopVariables(i, startIndex) ==
  [midiNote |-> firstMidiNote + i,
   noteIndex |-> (startIndex + i) % 12,
   octave |-> (startIndex + i) \div 12]

\* The key pushed in iteration i; its note is the name followed by the
\* octave (the frequency of a key is left out).
PushedKey(i, loop) ==
  LET noteName == noteNames[loop.noteIndex + 1]
  IN [id |-> i, note |-> Append(noteName, loop.octave),
      midiNote |-> loop.midiNote, isBlack |-> IncludesSharp(noteName)]

\* The table with the loop started at the name C.
generateKeyMapping_FromC ==
  [j \in 1..keyCount |-> PushedKey(j - 1, LoopVariables(j - 1, 0))]

generateKeyMapping ==
  [j \in 1..keyCount |->
     PushedKey(j - 1, LoopVariables(j - 1, firstNoteIndex))]

\* const [keys] = useState(generateKeyMapping()): never set again.
keys == generateKeyMapping

\* The MIDI number of the key with id k.
MidiNoteOf(k) == keys[k + 1].midiNote

\* keys.findIndex((key) => key.midiNote === note)
findIndex(note) ==
  LET table == keys
      found == { i \in 1..Len(table) : table[i].midiNote = note }
  IN IF found # {}
       THEN (CHOOSE i \in found : \A j \in found : i <= j) - 1
       ELSE -1

\* status & 0xf0, for a status byte
HighNibble(status) == (status \div 16) * 16

\* A note-on test that leaves out the velocity.
isNoteOn_AnyVelocity(status, velocity) == HighNibble(status) = 144

isNoteOn(status, velocity) == HighNibble(status) = 144 /\ velocity > 0

isNoteOff(status, velocity) ==
  \/ HighNibble(status) = 128
  \/ HighNibble(status) = 144 /\ velocity = 0

\* createVisualNote returns null without creating a note when the last note
\* of the key was created less than 30 ms ago and no duration is given.
VisualThrottled(k, duration) ==
  now - lastKeyPressTime[k] < throttleMs /\ ~Truthy(duration)

\* What createVisualNote(keyData, duration) returns.
CreatedNoteId(k, duration) ==
  IF VisualThrottled(k, duration) THEN Null ELSE noteIdCounter + 1

\* visualNotes after createVisualNote(keyData, duration).
NotesAfterCreate(notes, k, duration) ==
  IF VisualThrottled(k, duration) THEN notes
  ELSE Append(notes, [id |-> noteIdCounter + 1, keyId |-> k,
                      startTime |-> now,
                      duration |-> IF Truthy(duration) THEN duration ELSE Null,
                      endTime |-> Null])

\* The refs createVisualNote(keyData, duration) writes.
createVisualNoteRefs(k, duration) ==
  IF VisualThrottled(k, duration)
    THEN UNCHANGED <<noteIdCounter, lastKeyPressTime>>
    ELSE /\ noteIdCounter' = noteIdCounter + 1
         /\ lastKeyPressTime' = [lastKeyPressTime EXCEPT ![k] = now]

\* visualNotes after endVisualNote(noteId, duration).
endVisualNote(notes, noteId, duration) ==
  [i \in 1..Len(notes) |->
     IF notes[i].id = noteId
       THEN [notes[i] EXCEPT !.duration = duration, !.endTime = now]
       ELSE notes[i]]

\* endVisualNote applied for each id of a list, in order.
RECURSIVE endVisualNotes(_, _)
endVisualNotes(notes, toEnd) ==
  IF toEnd = <<>> THEN notes
  ELSE endVisualNotes(
         endVisualNote(notes, Head(toEnd).id, now - Head(toEnd).startTime),
         Tail(toEnd))

(***************************************************************************)
(* The performance recorder: handleKeyPress, handleKeyRelease,             *)
(* toggleRecording, clearRecording.                                        *)
(***************************************************************************)

ActiveHas(k) == \E i \in 1..Len(activeNotes) : activeNotes[i].id = k

ActiveGet(k) ==
  activeNotes[CHOOSE i \in 1..Len(activeNotes) : activeNotes[i].id = k]

\* new Map([...prev, [key, value]]): a key already in the map keeps its place.
ActiveSet(map, k, value) ==
  IF \E i \in 1..Len(map) : map[i].id = k
    THEN [i \in 1..Len(map) |-> IF map[i].id = k THEN value ELSE map[i]]
    ELSE Append(map, value)

\* newMap.delete(key)
ActiveDelete(map, k) == SelectSeq(map, LAMBDA e : e.id # k)

\* A RecordedNote with the duration as measured.
WithDuration_Unclamped(noteData, duration) ==
  [id |-> noteData.id, midiNote |-> noteData.midiNote,
   velocity |-> noteData.velocity, startTime |-> noteData.startTime,
   visualNoteId |-> noteData.visualNoteId, duration |-> duration]

\* A RecordedNote: the ActiveNote with its duration, at least 100 ms.
WithDuration(noteData, duration) ==
  [id |-> noteData.id, midiNote |-> noteData.midiNote,
   velocity |-> noteData.velocity, startTime |-> noteData.startTime,
   visualNoteId |-> noteData.visualNoteId,
   duration |-> Max(duration, minDuration)]

handleKeyPress(k, velocity) ==
  IF k \in pressedKeys
    THEN UNCHANGED appVars
    ELSE
      LET noteId == CreatedNoteId(k, Null)
          epoch == IF Truthy(recordingStartTimeRef)
                     THEN recordingStartTimeRef ELSE now
          startTime == now - epoch
      IN /\ pressedKeys' = pressedKeys \cup {k}
         /\ visualNotes' = NotesAfterCreate(visualNotes, k, Null)
         /\ createVisualNoteRefs(k, Null)
         /\ IF isRecording
              THEN /\ recordingStartTimeRef' = epoch
                   /\ activeNotes' =
                        ActiveSet(activeNotes, k,
                                  [id |-> k, midiNote |-> MidiNoteOf(k),
                                   velocity |-> velocity,
                                   startTime |-> startTime,
                                   visualNoteId |-> noteId])
              ELSE UNCHANGED <<recordingStartTimeRef, activeNotes>>
         /\ UNCHANGED <<isRecording, isReplaying, recordedNotes,
                        replayTimeoutRefs, timers, lastCleanupTime>>

\* handleKeyRelease without the floor of the recorded duration.
handleKeyRelease_NoFloor(k) ==
  /\ pressedKeys' = pressedKeys \ {k}
  /\ IF isRecording /\ ActiveHas(k)
       THEN LET noteData == ActiveGet(k)
                endTime == now - ToNumber(recordingStartTimeRef)
                duration == endTime - noteData.startTime
            IN /\ visualNotes' =
                    IF Truthy(noteData.visualNoteId)
                      THEN endVisualNote(visualNotes, noteData.visualNoteId,
                                         duration)
                      ELSE visualNotes
               /\ recordedNotes' =
                    Append(recordedNotes,
                           [WithDuration(noteData, duration)
                              EXCEPT !.duration = duration])
               /\ activeNotes' = ActiveDelete(activeNotes, k)
       ELSE LET activeVisualNotes ==
                  SelectSeq(visualNotes,
                            LAMBDA note : note.keyId = k
                                            /\ ~Truthy(note.duration))
            IN /\ visualNotes' = endVisualNotes(visualNotes, activeVisualNotes)
               /\ UNCHANGED <<recordedNotes, activeNotes>>
  /\ UNCHANGED <<isRecording, isReplaying, recordingStartTimeRef,
                 replayTimeoutRefs, timers, noteIdCounter, lastKeyPressTime,
                 lastCleanupTime>>

handleKeyRelease(k) ==
  /\ pressedKeys' = pressedKeys \ {k}
  /\ IF isRecording /\ ActiveHas(k)
       THEN LET noteData == ActiveGet(k)
                endTime == now - ToNumber(recordingStartTimeRef)
                duration == endTime - noteData.startTime
            IN /\ visualNotes' =
                    IF Truthy(noteData.visualNoteId)
                      THEN endVisualNote(visualNotes, noteData.visualNoteId,
                                         duration)
                      ELSE visualNotes
               /\ recordedNotes' =
                    Append(recordedNotes, WithDuration(noteData, duration))
               /\ activeNotes' = ActiveDelete(activeNotes, k)
       ELSE LET activeVisualNotes ==
                  SelectSeq(visualNotes,
                            LAMBDA note : note.keyId = k
                                            /\ ~Truthy(note.duration))
            IN /\ visualNotes' = endVisualNotes(visualNotes, activeVisualNotes)
               /\ UNCHANGED <<recordedNotes, activeNotes>>
  /\ UNCHANGED <<isRecording, isReplaying, recordingStartTimeRef,
                 replayTimeoutRefs, timers, noteIdCounter, lastKeyPressTime,
                 lastCleanupTime>>

\* handleMIDIMessage(event) with event.data = [status, note, velocity].
handleMIDIMessage(status, note, velocity) ==
  IF isNoteOn(status, velocity) \/ isNoteOff(status, velocity)
    THEN LET keyIndex == findIndex(note)
             keyData == keys[keyIndex + 1]
         IN IF keyIndex # -1
              THEN IF isNoteOn(status, velocity)
                     THEN handleKeyPress(keyData.id, velocity)
                     ELSE handleKeyRelease(keyData.id)
              ELSE UNCHANGED appVars
    ELSE UNCHANGED appVars

\* The notes toggleRecording appends on stop, one for each ActiveNote in the
\* order of the map, computed against the epoch it reads.
FlushedNotes(epochRead) ==
  [i \in 1..Len(activeNotes) |->
     LET noteData == activeNotes[i]
         endTime == now - ToNumber(epochRead)
         duration == endTime - noteData.startTime
     IN WithDuration(noteData, duration)]

\* A stop that leaves the map of ActiveNotes as it is.
ActiveAfterStop_Kept(map) == map

\* setActiveNotes(new Map()) at the end of the stop branch
ActiveAfterStop(map) == <<>>

toggleRecording ==
  /\ IF isRecording
       THEN /\ isRecording' = FALSE
            /\ recordingStartTimeRef' = Null
            \* the ref is read after it was set to null
            /\ recordedNotes' = recordedNotes \o FlushedNotes(Null)
            /\ activeNotes' = ActiveAfterStop(activeNotes)
       ELSE /\ isRecording' = TRUE
            /\ recordedNotes' = <<>>
            /\ recordingStartTimeRef' = now
            /\ UNCHANGED activeNotes
  /\ UNCHANGED <<pressedKeys, isReplaying, visualNotes, replayTimeoutRefs,
                 timers, noteIdCounter, lastKeyPressTime, lastCleanupTime>>

(***************************************************************************)
(* The replay scheduler: replayRecording, its timer callbacks, stopReplay. *)
(***************************************************************************)

Range(seq) == { seq[i] : i \in 1..Len(seq) }

Handles(ts) == { ts[i].handle : i \in 1..Len(ts) }

\* The k-th handle not in use: setTimeout returns a handle no pending timer
\* has.
KthFree(used, k) ==
  CHOOSE h \in 1..(k + Cardinality(used)) :
    /\ h \notin used
    /\ Cardinality({ x \in 1..h : x \notin used }) = k

\* clearTimeout of every handle of a list.
ClearTimeouts(ts, handles) ==
  SelectSeq(ts, LAMBDA t : t.handle \notin Range(handles))

\* Math.max(...recordedNotes.map((note) => note.startTime + note.duration))
MaxEndTime(notes) ==
  CHOOSE m \in { notes[i].startTime + notes[i].duration : i \in 1..Len(notes) } :
    \A i \in 1..Len(notes) : notes[i].startTime + notes[i].duration <= m

\* A timer whose release is scheduled at the duration alone.
Timer_OffAtDuration(handle, kind, index, key, duration, visualNoteId, delay) ==
  [handle |-> handle, kind |-> kind, index |-> index, key |-> key,
   duration |-> duration, visualNoteId |-> visualNoteId,
   due |-> now + (IF kind = "off" THEN duration ELSE delay)]

\* setTimeout(callback, delay): the timer created, due delay ms from now.
Timer(handle, kind, index, key, duration, visualNoteId, delay) ==
  [handle |-> handle, kind |-> kind, index |-> index, key |-> key,
   duration |-> duration, visualNoteId |-> visualNoteId, due |-> now + delay]

\* The guard without its test of the active replay.
ReplayRefused_EmptyOnly == recordedNotes = <<>>

\* if (recordedNotes.length === 0 || isReplaying) return;
ReplayRefused == recordedNotes = <<>> \/ isReplaying

replayRecording ==
  IF ReplayRefused
    THEN UNCHANGED appVars
    ELSE
      LET kept == ClearTimeouts(timers, replayTimeoutRefs)
          used == Handles(kept)
          n == Len(recordedNotes)
          onTimeout(i) ==
            Timer(KthFree(used, 2 * i - 1), "on", i, recordedNotes[i].id,
                  recordedNotes[i].duration, Null, recordedNotes[i].startTime)
          offTimeout(i) ==
            Timer(KthFree(used, 2 * i), "off", i, recordedNotes[i].id,
                  recordedNotes[i].duration, Null,
                  recordedNotes[i].startTime + recordedNotes[i].duration)
          stopTimeout ==
            Timer(KthFree(used, 2 * n + 1), "stop", 0, Null, Null, Null,
                  MaxEndTime(recordedNotes) + replayEndBuffer)
      IN /\ isReplaying' = TRUE
         /\ timers' =
              kept \o [j \in 1..(2 * n) |->
                         IF j % 2 = 1 THEN onTimeout((j + 1) \div 2)
                                      ELSE offTimeout(j \div 2)]
                   \o <<stopTimeout>>
         /\ replayTimeoutRefs' = [j \in 1..(2 * n + 1) |-> KthFree(used, j)]
         /\ UNCHANGED <<pressedKeys, isRecording, recordedNotes, activeNotes,
                        visualNotes, recordingStartTimeRef, noteIdCounter,
                        lastKeyPressTime, lastCleanupTime>>

\* stopReplay that does not empty the list of handles.
AfterStopReplay_KeepsRefs(ts, refs) ==
  [timers |-> ClearTimeouts(ts, refs), replayTimeoutRefs |-> refs,
   isReplaying |-> FALSE, pressedKeys |-> {}]

\* What stopReplay leaves of the pending timers ts, with refs the list of
\* handles, and what it assigns to the rest of what it writes.
AfterStopReplay(ts, refs) ==
  [timers |-> ClearTimeouts(ts, refs), replayTimeoutRefs |-> <<>>,
   isReplaying |-> FALSE, pressedKeys |-> {}]

\* What stopReplay assigns; clearRecording calls it after its own updates.
stopReplayUpdates ==
  LET after == AfterStopReplay(timers, replayTimeoutRefs)
  IN /\ timers' = after.timers
     /\ replayTimeoutRefs' = after.replayTimeoutRefs
     /\ isReplaying' = after.isReplaying
     /\ pressedKeys' = after.pressedKeys

stopReplay ==
  /\ stopReplayUpdates
  /\ UNCHANGED <<isRecording, recordedNotes, activeNotes, visualNotes,
                 recordingStartTimeRef, noteIdCounter, lastKeyPressTime,
                 lastCleanupTime>>

clearRecording ==
  /\ recordedNotes' = <<>>
  /\ activeNotes' = <<>>
  /\ isRecording' = FALSE
  /\ recordingStartTimeRef' = Null
  /\ visualNotes' = <<>>
  /\ stopReplayUpdates
  /\ UNCHANGED <<noteIdCounter, lastKeyPressTime, lastCleanupTime>>

\* The pending timer that fires next: the earliest due, the first created of
\* those.
NextTimerIndex ==
  CHOOSE i \in 1..Len(timers) :
    \A j \in 1..Len(timers) :
      \/ timers[i].due < timers[j].due
      \/ timers[i].due = timers[j].due /\ i <= j

NextTimer == timers[NextTimerIndex]

TimerDue == timers # <<>> /\ NextTimer.due <= now

WithoutNextTimer ==
  SelectSeq(timers, LAMBDA t : t.handle # NextTimer.handle)

\* The callback of onTimeout: the simulated press.
onTimeoutFires ==
  LET t == NextTimer
      noteId == CreatedNoteId(t.key, t.duration)
      rest == WithoutNextTimer
      endTimeout ==
        Timer(KthFree(Handles(rest) \cup Range(replayTimeoutRefs), 1),
              "end", t.index, t.key, t.duration, noteId, t.duration)
  IN /\ pressedKeys' = pressedKeys \cup {t.key}
     /\ visualNotes' = NotesAfterCreate(visualNotes, t.key, t.duration)
     /\ createVisualNoteRefs(t.key, t.duration)
     /\ timers' = Append(rest, endTimeout)
     /\ UNCHANGED <<isRecording, isReplaying, recordedNotes, activeNotes,
                    recordingStartTimeRef, replayTimeoutRefs, lastCleanupTime>>

\* The callback of the timer created inside onTimeout.
endTimeoutFires ==
  LET t == NextTimer
  IN /\ visualNotes' = endVisualNote(visualNotes, t.visualNoteId, t.duration)
     /\ timers' = WithoutNextTimer
     /\ UNCHANGED <<pressedKeys, isRecording, isReplaying, recordedNotes,
                    activeNotes, recordingStartTimeRef, replayTimeoutRefs,
                    noteIdCounter, lastKeyPressTime, lastCleanupTime>>

\* The callback of offTimeout: the simulated release.
offTimeoutFires ==
  /\ pressedKeys' = pressedKeys \ {NextTimer.key}
  /\ timers' = WithoutNextTimer
  /\ UNCHANGED <<isRecording, isReplaying, recordedNotes, activeNotes,
                 visualNotes, recordingStartTimeRef, replayTimeoutRefs,
                 noteIdCounter, lastKeyPressTime, lastCleanupTime>>

\* The callback of stopTimeout.
stopTimeoutFires ==
  /\ isReplaying' = FALSE
  /\ timers' = WithoutNextTimer
  /\ UNCHANGED <<pressedKeys, isRecording, recordedNotes, activeNotes,
                 visualNotes, recordingStartTimeRef, replayTimeoutRefs,
                 noteIdCounter, lastKeyPressTime, lastCleanupTime>>

(***************************************************************************)
(* The cleanup sweep of animationLoop.                                     *)
(***************************************************************************)

\* CanvasVisualizer.cleanup(currentTime): the canvas's sweep of its own list.
cleanup(notes, currentTime) ==
  SelectSeq(notes,
            LAMBDA note :
              IF Truthy(note.duration)
                THEN currentTime - note.startTime <= animationDuration
                ELSE TRUE)

\* The filter with the comparison turned round.
SweepKeeps_Flipped(note, currentTime) ==
  LET elapsed == currentTime - note.startTime
  IN ~(Truthy(note.duration) /\ elapsed < animationDuration)

\* prevNotes.filter(...): a note goes when its duration is set and the time
\* since its startTime, measured at currentTime, exceeds 3500 ms.
SweepKeeps(note, currentTime) ==
  LET elapsed == currentTime - note.startTime
  IN ~(Truthy(note.duration) /\ elapsed > animationDuration)

Sweep(notes, currentTime) ==
  SelectSeq(notes, LAMBDA note : SweepKeeps(note, currentTime))

\* The timestamp requestAnimationFrame hands to animationLoop: milliseconds
\* since the page was loaded.
FrameTime == now - TimeOrigin

\* A frame in which animationLoop sweeps (the other frames change nothing).
animationLoop ==
  LET currentTime == FrameTime
  IN /\ currentTime - lastCleanupTime > cleanupInterval
     /\ visualNotes' = Sweep(visualNotes, currentTime)
     /\ lastCleanupTime' = currentTime
     /\ UNCHANGED <<pressedKeys, isRecording, isReplaying, recordedNotes,
                    activeNotes, recordingStartTimeRef, replayTimeoutRefs,
                    timers, noteIdCounter, lastKeyPressTime>>

(***************************************************************************)
(* The export: exportMIDI.                                                 *)
(***************************************************************************)

\* A guard that refuses nothing.
ExportRefused_Never == FALSE

\* if (recordedNotes.length === 0)
ExportRefused == recordedNotes = <<>>

\* exportMIDI: the alert, or the encoder run on recordedNotes and its bytes
\* handed to the browser as a download.
exportMIDI ==
  /\ IF ExportRefused
       THEN /\ exportAlerts' = exportAlerts + 1
            /\ UNCHANGED <<encNotes, midiFile, exportedFiles>>
       ELSE /\ encNotes' = recordedNotes
            /\ midiFile' = generateMIDIFile(recordedNotes)
            /\ exportedFiles' = exportedFiles + 1
            /\ UNCHANGED exportAlerts
  /\ UNCHANGED <<vlqValue, vlqBytes, appVars>>

(***************************************************************************)
(* The events: live input, the buttons, the timers, the frames, the clock. *)
(***************************************************************************)

Quiet == ~TimerDue

\* A key goes down: the mouse (no velocity) or a controller's note-on.
LivePress(k, velocity) ==
  /\ Quiet
  /\ k \in pressedKeys \/ pressesLeft > 0
  /\ pressesLeft' = IF k \in pressedKeys THEN pressesLeft ELSE pressesLeft - 1
  /\ held' = held \cup {k}
  /\ handleKeyPress(k, velocity)
  /\ UNCHANGED <<now, stepsDone, replaysLeft, recEpoch, encVars>>

\* A key goes up, or the mouse leaves it: the release of a key not held
\* reaches handleKeyRelease too.
LiveRelease(k) ==
  /\ Quiet
  /\ held' = held \ {k}
  /\ handleKeyRelease(k)
  /\ UNCHANGED <<now, stepsDone, pressesLeft, replaysLeft, recEpoch, encVars>>

\* A message of a controller arrives. Of the player it tells which key
\* went down or up.
MIDIMessage(status, note, velocity) ==
  LET keyIndex == findIndex(note)
      down == isNoteOn(status, velocity) /\ keyIndex # -1
      up == isNoteOff(status, velocity) /\ keyIndex # -1
      accepted == down /\ keyIndex \notin pressedKeys
  IN /\ Quiet
     /\ accepted => pressesLeft > 0
     /\ pressesLeft' = IF accepted THEN pressesLeft - 1 ELSE pressesLeft
     /\ held' = IF down THEN held \cup {keyIndex}
                ELSE IF up THEN held \ {keyIndex} ELSE held
     /\ handleMIDIMessage(status, note, velocity)
     /\ UNCHANGED <<now, stepsDone, replaysLeft, recEpoch, encVars>>

RecordClick ==
  /\ Quiet
  /\ recEpoch' = IF isRecording THEN Null ELSE now
  /\ toggleRecording
  /\ UNCHANGED <<now, stepsDone, pressesLeft, replaysLeft, held, encVars>>

\* The replay button is disabled while nothing is recorded; it starts a
\* replay when none is active
ReplayClick ==
  /\ Quiet
  /\ recordedNotes # <<>>
  /\ ~isReplaying
  /\ replaysLeft > 0
  /\ replaysLeft' = replaysLeft - 1
  /\ replayRecording
  /\ UNCHANGED <<now, stepsDone, pressesLeft, held, recEpoch, encVars>>

\* and stops the active one.
StopReplayClick ==
  /\ Quiet
  /\ recordedNotes # <<>>
  /\ isReplaying
  /\ stopReplay
  /\ UNCHANGED <<envVars, encVars>>

ClearClick ==
  /\ Quiet
  /\ recEpoch' = Null
  /\ clearRecording
  /\ UNCHANGED <<now, stepsDone, pressesLeft, replaysLeft, held, encVars>>

\* The export button is disabled while nothing is recorded.
ExportClick ==
  /\ Quiet
  /\ recordedNotes # <<>>
  /\ exportAlerts + exportedFiles < MaxExports
  /\ exportMIDI
  /\ UNCHANGED envVars

FireOn ==
  /\ TimerDue
  /\ NextTimer.kind = "on"
  /\ onTimeoutFires
  /\ UNCHANGED <<envVars, encVars>>

FireOff ==
  /\ TimerDue
  /\ NextTimer.kind = "off"
  /\ offTimeoutFires
  /\ UNCHANGED <<envVars, encVars>>

FireEnd ==
  /\ TimerDue
  /\ NextTimer.kind = "end"
  /\ endTimeoutFires
  /\ UNCHANGED <<envVars, encVars>>

FireStop ==
  /\ TimerDue
  /\ NextTimer.kind = "stop"
  /\ stopTimeoutFires
  /\ UNCHANGED <<envVars, encVars>>

Frame ==
  /\ Quiet
  /\ animationLoop
  /\ UNCHANGED <<envVars, encVars>>

\* The clock moves by the next step, not past a pending timer.
Advance ==
  /\ stepsDone < Len(TimeSteps)
  /\ \A i \in 1..Len(timers) : now + TimeSteps[stepsDone + 1] <= timers[i].due
  /\ now' = now + TimeSteps[stepsDone + 1]
  /\ stepsDone' = stepsDone + 1
  /\ UNCHANGED <<pressesLeft, replaysLeft, held, recEpoch, appVars, encVars>>

\* The clock moves to the time the next timer is due.
AdvanceToTimer ==
  /\ timers # <<>>
  /\ NextTimer.due > now
  /\ NextTimer.due <= TimeOrigin + Horizon
  /\ now' = NextTimer.due
  /\ UNCHANGED <<stepsDone, pressesLeft, replaysLeft, held, recEpoch, appVars, encVars>>

InitApp ==
  /\ now = TimeOrigin
  /\ stepsDone = 0
  /\ pressesLeft = MaxPresses
  /\ replaysLeft = MaxReplays
  /\ held = {}
  /\ recEpoch = Null
  /\ pressedKeys = {}
  /\ isRecording = FALSE
  /\ isReplaying = FALSE
  /\ recordedNotes = <<>>
  /\ activeNotes = <<>>
  /\ visualNotes = <<>>
  /\ recordingStartTimeRef = Null
  /\ replayTimeoutRefs = <<>>
  /\ timers = <<>>
  /\ noteIdCounter = 0
  /\ lastKeyPressTime = [k \in ThrottledKeys |-> 0]
  /\ lastCleanupTime = 0

Init ==
  /\ InitApp
  /\ encNotes = <<>>
  /\ midiFile = <<>>
  /\ vlqValue = 0
  /\ vlqBytes = <<>>
  /\ exportAlerts = 0
  /\ exportedFiles = 0

\* The whole program, played on one key.
Next ==
  \/ \E p \in SoloPresses : LivePress(p[1], p[2])
  \/ \E k \in PlayedKeys : LiveRelease(k)
  \/ RecordClick
  \/ ReplayClick
  \/ StopReplayClick
  \/ ClearClick
  \/ FireOn
  \/ FireOff
  \/ FireEnd
  \/ FireStop
  \/ Frame
  \/ Advance
  \/ AdvanceToTimer

\* The recorder and the note lifecycle, played on two keys, without replay.
NextKeys ==
  \/ \E p \in Presses : LivePress(p[1], p[2])
  \/ \E k \in PlayedKeys : LiveRelease(k)
  \/ RecordClick
  \/ ClearClick
  \/ Frame
  \/ Advance

\* The recorder on one key, and the export.
NextExport ==
  \/ \E p \in SoloPresses : LivePress(p[1], p[2])
  \/ \E k \in PlayedKeys : LiveRelease(k)
  \/ RecordClick
  \/ ClearClick
  \/ ExportClick
  \/ Advance

\* The recorder driven by a controller, in one instant.
NextMidiIn ==
  \/ \E status \in MidiStatuses, note \in MidiPitches,
        velocity \in MidiVelocities : MIDIMessage(status, note, velocity)
  \/ RecordClick

(***************************************************************************)
(* The inputs of the encoder checks.                                       *)
(***************************************************************************)
EncPitches == {60, 61}
EncVelocities == {Null, 100}
EncStartTimes == {0, 1, 500, 35000}
EncDurations == {100, 101, 500}

EncNote(p, v, s, d) ==
  [id |-> p - 21, midiNote |-> p, velocity |-> v, startTime |-> s,
   visualNoteId |-> Null, duration |-> d]

\* A note and the note of the same key pressed in the millisecond the first
\* was released.
AdjacentNotes == {EncNote(60, Null, 24, 124), EncNote(60, Null, 148, 100)}

EncNoteSet ==
  { EncNote(p, v, s, d) : p \in EncPitches, v \in EncVelocities,
                          s \in EncStartTimes, d \in EncDurations }
    \cup AdjacentNotes

\* A list long enough for a track of more than 255 bytes.
LongList == [i \in 1..40 |-> EncNote(60, Null, 250 * i, 100)]

EncNoteLists ==
  UNION { [1..n -> EncNoteSet] : n \in 0..MaxNotes } \cup {LongList}

VlqInputs ==
  (0..VlqSmallMax)
    \cup (16380..16390) \cup (2097148..2097156) \cup (268435450..268435455)

InitMidi ==
  /\ InitApp
  /\ encNotes \in EncNoteLists
  /\ midiFile = <<>>
  /\ vlqValue = 0
  /\ vlqBytes = <<>>
  /\ exportAlerts = 0
  /\ exportedFiles = 0

Generate ==
  /\ midiFile = <<>>
  /\ midiFile' = generateMIDIFile(encNotes)
  /\ UNCHANGED <<encNotes, vlqValue, vlqBytes, exportAlerts, exportedFiles,
                 appVars, envVars>>

NextMidi == Generate

InitVlq ==
  /\ InitApp
  /\ encNotes = <<>>
  /\ midiFile = <<>>
  /\ vlqValue \in VlqInputs
  /\ vlqBytes = <<>>
  /\ exportAlerts = 0
  /\ exportedFiles = 0

Encode ==
  /\ vlqBytes = <<>>
  /\ vlqBytes' = encodeVariableLength(vlqValue)
  /\ UNCHANGED <<encNotes, midiFile, vlqValue, exportAlerts, exportedFiles,
                 appVars, envVars>>

NextVlq == Encode

(***************************************************************************)
(* A reader of Standard MIDI File tracks, used to state the encoder's      *)
(* properties on the bytes it returns.                                     *)
(***************************************************************************)

\* The standard decoder of a variable-length quantity that starts at
\* bytes[pos]: seven bits a byte, the last byte is the first below 128.
RECURSIVE DecodeVLQ(_, _, _)
DecodeVLQ(bytes, pos, acc) ==
  IF pos > Len(bytes) THEN [value |-> Null, next |-> pos]
  ELSE IF bytes[pos] >= 128
    THEN DecodeVLQ(bytes, pos + 1, acc * 128 + (bytes[pos] % 128))
    ELSE [value |-> acc * 128 + bytes[pos], next |-> pos + 1]

\* The events of a track as <<absolute tick, status, data1, data2>>, up to
\* the end-of-track meta event; Null when the bytes are no such track.
\* The tests of tick and acc have the evaluator compute both at every event
\* rather than once at the end of the track.
RECURSIVE ReadTrack(_, _, _, _)
ReadTrack(bytes, pos, tick, acc) ==
  LET d == DecodeVLQ(bytes, pos, 0)
      at == d.next
  IN IF \/ d.value = Null
        \/ at + 2 > Len(bytes)
        \/ tick < 0
        \/ Len(acc) > Len(bytes)
       THEN <<Null>>
     ELSE IF bytes[at] = 255
       THEN IF /\ at + 2 = Len(bytes)
               /\ bytes[at + 1] = 47
               /\ bytes[at + 2] = 0
               /\ d.value = 0
              THEN acc ELSE <<Null>>
     ELSE ReadTrack(bytes, at + 3, tick + d.value,
                    Append(acc, <<tick + d.value, bytes[at], bytes[at + 1],
                                  bytes[at + 2]>>))

\* The track bytes of a file: what follows the 22 bytes of the two headers.
TrackOf(file) == SubSeq(file, 23, Len(file))

\* The big-endian value of the four bytes file[pos..pos+3].
BigEndian32(file, pos) ==
  ((file[pos] * 256 + file[pos + 1]) * 256 + file[pos + 2]) * 256
    + file[pos + 3]

ReadEvents == ReadTrack(TrackOf(midiFile), 1, 0, <<>>)

\* How many events of a sequence equal e.
CountOf(events, e) == Cardinality({ k \in 1..Len(events) : events[k] = e })

\* C1: for every note list, the empty one included, generateMIDIFile returns
\* the fixed 14-byte header (MThd, length 6, one track, division 480), then
\* MTrk, then the 4-byte big-endian count of the track bytes that follow,
\* then the track bytes ending in 00 FF 2F 00; the file is 22 + track length
\* bytes long, and for the empty list it is the 26 bytes of the two headers
\* and the end-of-track marker.
C1_FileLayout ==
  midiFile # <<>> =>
    /\ Len(midiFile) >= 26
    /\ SubSeq(midiFile, 1, 14)
         = <<77, 84, 104, 100, 0, 0, 0, 6, 0, 0, 0, 1, 480 \div 256, 480 % 256>>
    /\ SubSeq(midiFile, 15, 18) = <<77, 84, 114, 107>>
    /\ \A i \in 1..Len(midiFile) : midiFile[i] \in 0..255
    /\ BigEndian32(midiFile, 19) = Len(midiFile) - 22
    /\ SubSeq(midiFile, Len(midiFile) - 3, Len(midiFile)) = <<0, 255, 47, 0>>
    /\ ReadEvents # <<Null>>
    /\ encNotes = <<>> =>
         /\ Len(midiFile) = 26
         /\ TrackOf(midiFile) = <<0, 255, 47, 0>>

C1_Witness_Empty ==
  /\ midiFile # <<>>
  /\ encNotes = <<>>

\* A file whose track is longer than 255 bytes has been produced.
C1_Witness_Long ==
  /\ midiFile # <<>>
  /\ Len(midiFile) - 22 > 255

\* The integer nearest to ms * 480 / 1000 (halves upwards, as Math.round).
RoundTicks(ms) == (2 * ms * 480 + 1000) \div 2000

\* The notes of encNotes whose pitch is p and for which tickOf gives t.
NotesAt(p, t, tickOf(_)) ==
  { i \in 1..Len(encNotes) :
      encNotes[i].midiNote = p /\ tickOf(encNotes[i]) = t }

OffTickOfSum(note) == RoundTicks(note.startTime + note.duration)
OffTickOfParts(note) == RoundTicks(note.startTime) + RoundTicks(note.duration)
OnTick(note) == RoundTicks(note.startTime)

\* C2 as stated: the note-off [0x80, midiNote, 0] of every note is at absolute
\* tick round((startTime + duration) * 480 / 1000).
C2_NoteOffAtRoundedSum ==
  midiFile # <<>> =>
    LET events == ReadEvents
    IN \A i \in 1..Len(encNotes) :
         LET n == encNotes[i]
             t == OffTickOfSum(n)
         IN CountOf(events, <<t, 128, n.midiNote, 0>>)
              = Cardinality(NotesAt(n.midiNote, t, OffTickOfSum))

\* C2 as amended: the note-off [0x80, midiNote, 0] of every note is at absolute
\* tick round(startTime * 480 / 1000) + round(duration * 480 / 1000), the
\* note-on tick plus the separately rounded duration, which is within one tick
\* of round((startTime + duration) * 480 / 1000).
C2_NoteOffAtSumOfRounded ==
  midiFile # <<>> =>
    LET events == ReadEvents
    IN \A i \in 1..Len(encNotes) :
         LET n == encNotes[i]
             t == OffTickOfParts(n)
         IN /\ CountOf(events, <<t, 128, n.midiNote, 0>>)
                 = Cardinality(NotesAt(n.midiNote, t, OffTickOfParts))
            /\ t - OffTickOfSum(n) \in {-1, 0, 1}

\* A file has been produced for a note whose two roundings differ.
C2_Witness ==
  /\ midiFile # <<>>
  /\ \E i \in 1..Len(encNotes) :
       OffTickOfParts(encNotes[i]) # OffTickOfSum(encNotes[i])

\* The velocity byte the claim gives a note: its velocity, 64 when unset.
ClaimedVelocity(note) == IF note.velocity = Null THEN 64 ELSE note.velocity

\* C3: for a list of n notes the track holds exactly 2n note events: for each
\* note one note-on [0x90, midiNote, v] at tick round(startTime * 480 / 1000),
\* v the note's velocity or 64 when unset, and one note-off [0x80, midiNote, 0]
\* of the same pitch.
C3_TwoEventsPerNote ==
  midiFile # <<>> =>
   LET events == ReadEvents IN
    /\ events # <<Null>>
    /\ Len(events) = 2 * Len(encNotes)
    /\ \A k \in 1..Len(events) : events[k][2] \in {144, 128}
    /\ \A i \in 1..Len(encNotes) :
         LET n == encNotes[i]
         IN /\ CountOf(events,
                       <<OnTick(n), 144, n.midiNote, ClaimedVelocity(n)>>)
                 = Cardinality({ j \in 1..Len(encNotes) :
                       /\ encNotes[j].midiNote = n.midiNote
                       /\ OnTick(encNotes[j]) = OnTick(n)
                       /\ ClaimedVelocity(encNotes[j]) = ClaimedVelocity(n) })
            /\ Cardinality({ k \in 1..Len(events) :
                       /\ events[k][2] = 128
                       /\ events[k][3] = n.midiNote
                       /\ events[k][4] = 0 })
                 = Cardinality({ j \in 1..Len(encNotes) :
                       encNotes[j].midiNote = n.midiNote })
            /\ Cardinality({ k \in 1..Len(events) :
                       /\ events[k][2] = 144
                       /\ events[k][3] = n.midiNote })
                 = Cardinality({ j \in 1..Len(encNotes) :
                       encNotes[j].midiNote = n.midiNote })

\* A file has been produced for two notes of one pitch, one with a velocity
\* and one without.
C3_Witness ==
  /\ midiFile # <<>>
  /\ \E i, j \in 1..Len(encNotes) :
       /\ encNotes[i].midiNote = encNotes[j].midiNote
       /\ encNotes[i].velocity = Null
       /\ encNotes[j].velocity # Null

\* 128 to the power k.
RECURSIVE Pow128(_)
Pow128(k) == IF k = 0 THEN 1 ELSE 128 * Pow128(k - 1)

\* C4: for every x in 0..2^28-1, encodeVariableLength(x) is 1 to 4 bytes, the
\* most significant 7-bit group first, the high bit set on every byte but the
\* last, and the standard decoder returns x from it; 0 encodes as [0x00] and
\* 240 as [0x81, 0x70].
C4_VlqRoundTrip ==
  vlqBytes # <<>> =>
    LET n == Len(vlqBytes)
    IN /\ n \in 1..4
       /\ \A i \in 1..n : vlqBytes[i] \in 0..255
       /\ \A i \in 1..(n - 1) : vlqBytes[i] >= 128
       /\ vlqBytes[n] < 128
       /\ \A i \in 1..n :
            vlqBytes[i] % 128 = (vlqValue \div Pow128(n - i)) % 128
       /\ DecodeVLQ(vlqBytes, 1, 0) = [value |-> vlqValue, next |-> n + 1]
       /\ vlqValue = 0 => vlqBytes = <<0>>
       /\ vlqValue = 240 => vlqBytes = <<129, 112>>
       /\ vlqValue = 127 => vlqBytes = <<127>>
       /\ vlqValue = 128 => vlqBytes = <<129, 0>>
       /\ vlqValue = 16383 => vlqBytes = <<255, 127>>
       /\ vlqValue = 16384 => vlqBytes = <<129, 128, 0>>
       /\ vlqValue = 2097151 => vlqBytes = <<255, 255, 127>>

\* The largest value of the range, 2^28 - 1, has been encoded.
C4_Witness ==
  /\ vlqBytes # <<>>
  /\ vlqValue = 268435455
  /\ Len(vlqBytes) = 4

(***************************************************************************)
(* The recorder, the lifecycle and the replay: the properties.             *)
(***************************************************************************)

\* The RecordedNote the claims give an ActiveNote released (or flushed) now,
\* in the recording that began at recEpoch.
ClaimedNote(noteData) ==
  [id |-> noteData.id, midiNote |-> noteData.midiNote,
   velocity |-> noteData.velocity, startTime |-> noteData.startTime,
   visualNoteId |-> noteData.visualNoteId,
   duration |-> Max(now - recEpoch - noteData.startTime, 100)]

\* C5: while recording, the release of a key K that has an ActiveNote appends
\* exactly one RecordedNote for K, with the ActiveNote's startTime and with
\* duration max(now - epoch - startTime, 100), and removes K's ActiveNote and
\* no other; the release of a key without ActiveNote leaves the recorded list
\* as it is.
C5_ReleaseRecords ==
  [][\A k \in PlayedKeys :
       LiveRelease(k) =>
         IF isRecording /\ ActiveHas(k)
           THEN /\ recordedNotes' =
                     Append(recordedNotes, ClaimedNote(ActiveGet(k)))
                /\ activeNotes' = SelectSeq(activeNotes, LAMBDA e : e.id # k)
           ELSE /\ recordedNotes' = recordedNotes
                /\ activeNotes' = activeNotes]_vars

\* A hold of 40 ms has been recorded as 100 ms and a hold of 250 ms as 250 ms
\* (the VisualNote of a note keeps the time the key was held).
C5_Witness ==
  /\ \E i \in 1..Len(recordedNotes) :
       /\ recordedNotes[i].duration = 100
       /\ \E j \in 1..Len(visualNotes) :
            /\ visualNotes[j].id = recordedNotes[i].visualNoteId
            /\ visualNotes[j].duration = 40
  /\ \E i \in 1..Len(recordedNotes) :
       /\ recordedNotes[i].duration = 250
       /\ \E j \in 1..Len(visualNotes) :
            /\ visualNotes[j].id = recordedNotes[i].visualNoteId
            /\ visualNotes[j].duration = 250

\* C6: stopping a recording while keys are held appends one RecordedNote for
\* each remaining ActiveNote, with duration max(now - epoch - startTime, 100),
\* epoch being that of the recording stopped; afterwards recording is off and
\* no ActiveNote remains.
C6_StopFlushes ==
  [][(RecordClick /\ isRecording) =>
       /\ recordedNotes' =
            recordedNotes
              \o [i \in 1..Len(activeNotes) |-> ClaimedNote(activeNotes[i])]
       /\ isRecording' = FALSE
       /\ activeNotes' = <<>>]_vars

\* C7: a second press of a key K that arrives before K's release changes
\* neither K's ActiveNote nor the VisualNotes nor the recorded list.
C7_SecondPressIgnored ==
  [][\A p \in Presses :
       (p[1] \in held /\ LivePress(p[1], p[2])) =>
         /\ activeNotes' = activeNotes
         /\ visualNotes' = visualNotes
         /\ recordedNotes' = recordedNotes]_vars

\* kept is what a sweep at this instant may leave of notes: every note still
\* growing (duration null), every released note whose startTime lies at most
\* 3500 ms back, and the rest of kept unchanged and in the order of notes.
KeepsLiveNotes(notes, kept) ==
  /\ \A i \in 1..Len(notes) :
       (\/ notes[i].duration = Null
        \/ now - notes[i].startTime <= 3500)
         => notes[i] \in Range(kept)
  /\ kept = SelectSeq(notes, LAMBDA n : n \in Range(kept))

\* C8: the cleanup sweep removes no VisualNote that is still growing (duration
\* null) and no released one whose time since its startTime is at most
\* 3500 ms; what it keeps it keeps unchanged and in order.  The same holds
\* of the canvas's sweep, run on the same list at the same frame.
C8_SweepKeepsLiveNotes ==
  [][Frame =>
       /\ KeepsLiveNotes(visualNotes, visualNotes')
       /\ KeepsLiveNotes(visualNotes, cleanup(visualNotes, FrameTime))]_vars

\* A sweep has run (lastCleanupTime is the frame time of this instant) over a
\* growing note and over a released note not older than 3500 ms.
C8_Witness ==
  /\ lastCleanupTime = FrameTime
  /\ FrameTime > cleanupInterval
  /\ \E i \in 1..Len(visualNotes) : visualNotes[i].duration = Null
  /\ \E i \in 1..Len(visualNotes) :
       /\ Truthy(visualNotes[i].duration)
       /\ now - visualNotes[i].startTime <= 3500

\* C9: a VisualNote whose duration has been set and whose startTime lies more
\* than 3500 ms back is removed by the next cleanup sweep.
C9_SweepRemovesFinished ==
  [][Frame =>
       \A i \in 1..Len(visualNotes) :
         (/\ visualNotes[i].duration # Null
          /\ now - visualNotes[i].startTime > 3500)
           => visualNotes[i] \notin Range(visualNotes')]_vars

\* The timers of kind in ts that belong to note i of the replayed list.
TimersOf(ts, kind, i) ==
  { j \in 1..Len(ts) : ts[j].kind = kind /\ ts[j].index = i }

ReplayKinds == {"on", "off", "stop"}

\* C10: starting a replay schedules for each note one simulated press at
\* offset startTime and one simulated release at offset startTime + duration;
\* a timer fires at its time and the press of a note before its release;
\* the replay stays active while a press or release is pending and, unless
\* stopped, returns to idle when the last timer fires, at
\* max(startTime + duration) + 100 ms.
C10_ReplaySchedule ==
  [][/\ ReplayClick =>
          /\ isReplaying'
          /\ \A i \in 1..Len(recordedNotes) :
               /\ \E j \in TimersOf(timers', "on", i) :
                    /\ TimersOf(timers', "on", i) = {j}
                    /\ timers'[j].key = recordedNotes[i].id
                    /\ timers'[j].due = now + recordedNotes[i].startTime
               /\ \E j \in TimersOf(timers', "off", i) :
                    /\ TimersOf(timers', "off", i) = {j}
                    /\ timers'[j].key = recordedNotes[i].id
                    /\ timers'[j].due = now + recordedNotes[i].startTime
                                            + recordedNotes[i].duration
          /\ \A j \in 1..Len(timers') :
               timers'[j].kind \in {"on", "off"}
                 => timers'[j].index \in 1..Len(recordedNotes)
          /\ \E j \in 1..Len(timers') :
               /\ timers'[j].kind = "stop"
               /\ \A l \in 1..Len(timers') : timers'[l].kind = "stop" => l = j
               /\ \A i \in 1..Len(recordedNotes) :
                    timers'[j].due >= now + recordedNotes[i].startTime
                                          + recordedNotes[i].duration + 100
               /\ \E i \in 1..Len(recordedNotes) :
                    timers'[j].due = now + recordedNotes[i].startTime
                                         + recordedNotes[i].duration + 100
     /\ (FireOn \/ FireOff \/ FireStop) => now = NextTimer.due
     /\ FireOn => NextTimer.key \in pressedKeys'
     /\ FireOff =>
          /\ TimersOf(timers, "on", NextTimer.index) = {}
          /\ NextTimer.key \notin pressedKeys'
     /\ FireStop =>
          /\ \A j \in 1..Len(timers') : timers'[j].kind \notin ReplayKinds
          /\ isReplaying
          /\ ~isReplaying'
     /\ (\E j \in 1..Len(timers') : timers'[j].kind \in ReplayKinds)
          => isReplaying']_vars

\* A replay of two notes has run to its end: the handles of its five timers
\* are still listed (stopReplay would have emptied the list), none of them is
\* pending, and the replay is idle again.
C10_Witness ==
  /\ Len(replayTimeoutRefs) = 5
  /\ ~isReplaying
  /\ \A j \in 1..Len(timers) : timers[j].kind \notin ReplayKinds


\* C11: after stopReplay, run from the Stop button or by Clear, no callback
\* that the stopped replay has scheduled fires: a callback of a replay,
\* those scheduled from inside a press callback included, fires only while
\* the replay is active.
C11_NoCallbackAfterStop ==
  [][(FireOn \/ FireOff \/ FireEnd \/ FireStop) => isReplaying]_vars

\* stopReplay run in this state leaves the replay idle, the list of handles
\* and the pressed keys empty and none of the listed timers pending, and
\* run once more it changes nothing.
StopReplayTwice ==
  LET once == AfterStopReplay(timers, replayTimeoutRefs)
      twice == AfterStopReplay(once.timers, once.replayTimeoutRefs)
  IN /\ ~once.isReplaying
     /\ once.replayTimeoutRefs = <<>>
     /\ once.pressedKeys = {}
     /\ Handles(once.timers) \cap Range(replayTimeoutRefs) = {}
     /\ twice = once

C13_ReplayStartRefused ==
  /\ (isReplaying \/ recordedNotes = <<>>)
       => ~ENABLED (replayRecording /\ appVars' # appVars)
  /\ Cardinality({ j \in 1..Len(timers) : timers[j].kind = "stop" }) <= 1
  /\ \A j \in 1..Len(timers) :
       timers[j].kind \in ReplayKinds
         => timers[j].handle \in Range(replayTimeoutRefs)

\* A replay is in the middle of its run: a press has fired, its release is
\* pending.
C13_Witness ==
  /\ isReplaying
  /\ recordedNotes # <<>>
  /\ \E j \in 1..Len(timers) :
       /\ timers[j].kind = "off"
       /\ TimersOf(timers, "on", timers[j].index) = {}

\* C14: starting a recording empties the recorded list, sets the epoch to the
\* current time and enters recording mode; while recording, a press of a key
\* K (one that is not held) that has no ActiveNote creates exactly one
\* ActiveNote for K, with startTime = now - epoch, epoch being the time the
\* recording was started, and leaves the other ActiveNotes as they are.
C14_StartAndPress ==
  [][/\ (RecordClick /\ ~isRecording) =>
          /\ recordedNotes' = <<>>
          /\ recordingStartTimeRef' = now
          /\ isRecording'
     /\ \A p \in Presses :
          (/\ LivePress(p[1], p[2])
           /\ isRecording
           /\ p[1] \notin held
           /\ ~ActiveHas(p[1])) =>
            /\ Len(activeNotes') = Len(activeNotes) + 1
            /\ SubSeq(activeNotes', 1, Len(activeNotes)) = activeNotes
            /\ activeNotes'[Len(activeNotes')].id = p[1]
            /\ activeNotes'[Len(activeNotes')].startTime = now - recEpoch]_vars

\* What C15 says of a clear, the pending timers left aside.
ClearedBuffers ==
  /\ recordedNotes' = <<>>
  /\ activeNotes' = <<>>
  /\ visualNotes' = <<>>
  /\ ~isRecording'
  /\ ~isReplaying'
  /\ replayTimeoutRefs' = <<>>

\* C15: clear, in any state, leaves the recorded list and the ActiveNote map
\* empty, recording mode off, the replay idle with no timer pending, and no
\* VisualNote; and outside a recording no event adds a RecordedNote.
C15_ClearEmptiesAll ==
  [][/\ ClearClick => (ClearedBuffers /\ timers' = <<>>)
     /\ ~isRecording => Len(recordedNotes') <= Len(recordedNotes)]_vars

\* The same without the timers: it holds.
C15_ClearEmptiesBuffers ==
  [][/\ ClearClick => ClearedBuffers
     /\ ~isRecording => Len(recordedNotes') <= Len(recordedNotes)]_vars

\* C16: a controller message [status, pitch, velocity] is a note-on iff its
\* status is 0x9n and its velocity above 0, and a note-off iff its status is
\* 0x8n, or 0x9n with velocity 0, whatever the channel n; a note-on is a
\* press and a note-off a release of the key whose MIDI number is the pitch,
\* key pitch - 21 for the pitches 21..108; a message of neither kind, or
\* with a pitch outside 21..108, changes no state.
C16_MidiMessages ==
  [][vars' # vars =>
     \A status \in MidiStatuses, note \in MidiPitches,
        velocity \in MidiVelocities :
       MIDIMessage(status, note, velocity) =>
         LET on == status \in 144..159 /\ velocity > 0
             off == status \in 128..143
                      \/ (status \in 144..159 /\ velocity = 0)
             inTable == note \in 21..108
         IN IF on /\ inTable THEN LivePress(note - 21, velocity)
            ELSE IF off /\ inTable THEN LiveRelease(note - 21)
            ELSE UNCHANGED vars]_vars

\* Through note-ons and note-offs of channel 9 the lowest and the highest
\* key have been recorded, and one key is still down.
C16_Witness ==
  /\ \E i \in 1..Len(recordedNotes) : recordedNotes[i].midiNote = 21
  /\ \E i \in 1..Len(activeNotes) : activeNotes[i].midiNote = 108
  /\ 87 \in pressedKeys

\* exportMIDI called with nothing recorded can do one thing only: show its
\* alert, with the encoder not run, no file produced and no state changed.
EmptyExportRejected ==
  recordedNotes = <<>> =>
    /\ ENABLED exportMIDI
    /\ ~ENABLED (/\ exportMIDI
                 /\ ~(/\ exportAlerts' = exportAlerts + 1
                      /\ UNCHANGED <<encNotes, midiFile, exportedFiles,
                                     appVars>>))

\* C17: an export produces a file iff a note is recorded: with none, it ends
\* in the alert, runs no encoder, produces no file and changes no state; with
\* at least one, the encoder runs on exactly the recorded list of that
\* moment and its file is produced, with no alert.
C17_ExportGate ==
  /\ []EmptyExportRejected
  /\ [][ExportClick =>
          /\ encNotes' = recordedNotes
          /\ midiFile' = generateMIDIFile(recordedNotes)
          /\ midiFile' # <<>>
          /\ exportedFiles' = exportedFiles + 1
          /\ UNCHANGED <<exportAlerts, appVars>>]_vars

\* A recording of two notes has been exported.
C17_Witness ==
  /\ exportedFiles > 0
  /\ Len(encNotes) = 2
  /\ encNotes = recordedNotes
  /\ Len(midiFile) > 26

\* The twelve pitch classes, by midiNote mod 12.
PitchClass ==
  << <<"C">>, <<"C", "#">>, <<"D">>, <<"D", "#">>, <<"E">>, <<"F">>,
     <<"F", "#">>, <<"G">>, <<"G", "#">>, <<"A">>, <<"A", "#">>, <<"B">> >>

BlackPitchClasses == {1, 3, 6, 8, 10}

\* C18: generateKeyMapping returns exactly 88 keys in ascending chromatic
\* order: key i has id i and midiNote 21 + i (first A0 / 21, last C8 / 108),
\* its name is the pitch class of midiNote followed by the octave
\* floor(midiNote / 12) - 1, and isBlack holds iff the name contains a sharp,
\* i.e. iff midiNote mod 12 is one of 1, 3, 6, 8, 10.
\* The component's table is that result in every state, so a held key is
\* one of its entries.
C18_KeyTable ==
  /\ Len(generateKeyMapping) = 88
  /\ generateKeyMapping[1].note = <<"A", 0>>
  /\ generateKeyMapping[1].midiNote = 21
  /\ generateKeyMapping[88].note = <<"C", 8>>
  /\ generateKeyMapping[88].midiNote = 108
  /\ \A i \in 0..87 :
       LET key == generateKeyMapping[i + 1]
           name == PitchClass[(key.midiNote % 12) + 1]
       IN /\ key.id = i
          /\ key.midiNote = 21 + i
          /\ key.note = Append(name, (key.midiNote \div 12) - 1)
          /\ key.isBlack = (\E c \in 1..Len(name) : name[c] = "#")
          /\ key.isBlack = ((key.midiNote % 12) \in BlackPitchClasses)
  /\ \A k \in pressedKeys : keys[k + 1] = generateKeyMapping[k + 1]

\* The component holds the table, and its first and last keys have been
\* found in it by pitch and are held.
C18_Witness ==
  /\ Len(keys) = 88
  /\ {findIndex(21), findIndex(108)} = pressedKeys
  /\ pressedKeys = {0, 87}
  /\ ~isRecording

\* The events of the exported list in insertion order: each note's on, then
\* its off, as <<absolute tick, status, data1, data2>>.
InsertedEvents ==
  [k \in 1..(2 * Len(encNotes)) |->
     LET note == encNotes[(k + 1) \div 2]
         on == RoundTicks(note.startTime)
     IN IF k % 2 = 1
          THEN <<on, 144, note.midiNote, ClaimedVelocity(note)>>
          ELSE <<on + RoundTicks(note.duration), 128, note.midiNote, 0>>]

\* Where inserted event i stands in a track ordered by tick with equal ticks
\* in insertion order.
PlaceInTrack(i) ==
  Cardinality({ j \in 1..Len(InsertedEvents) :
                  \/ InsertedEvents[j][1] < InsertedEvents[i][1]
                  \/ InsertedEvents[j][1] = InsertedEvents[i][1] /\ j < i })
    + 1

\* C19: in the exported track the note events stand in ascending absolute-tick
\* order, events of equal tick in insertion order (notes in list order, a
\* note's on before its off), every delta-time is non-negative, and the sum
\* of the delta-times up to an event is that event's absolute tick.
C19_TrackOrder ==
  midiFile # <<>> =>
    LET track == ReadEvents
        n == Len(InsertedEvents)
    IN /\ track # <<Null>>
       /\ Len(track) = n
       /\ \A k \in 1..n :
            track[k][1] - (IF k = 1 THEN 0 ELSE track[k - 1][1]) >= 0
       /\ \A i \in 1..n : track[PlaceInTrack(i)] = InsertedEvents[i]
       /\ \A i, j \in 1..n :
            i < j /\ InsertedEvents[i][1] = InsertedEvents[j][1]
              => PlaceInTrack(i) < PlaceInTrack(j)
       /\ \A m \in 1..Len(encNotes) :
            PlaceInTrack(2 * m - 1) < PlaceInTrack(2 * m)

\* A file of two notes listed latest first, the first note's on at the tick
\* of the second note's off.
C19_Witness ==
  /\ midiFile # <<>>
  /\ Len(encNotes) = 2
  /\ encNotes[1].midiNote # encNotes[2].midiNote
  /\ InsertedEvents[1][1] > InsertedEvents[3][1]
  /\ InsertedEvents[1][1] = InsertedEvents[4][1]
  /\ PlaceInTrack(1) < PlaceInTrack(4)

\* The test the component applies to tell a note still held from a released
\* one (!note.duration in handleKeyRelease, note.duration in the renderer and
\* in the sweep).
Growing(note) == ~Truthy(note.duration)

\* C20: once a release of key K is handled, no VisualNote of K is still
\* growing, in recording and non-recording mode alike, a press and release
\* within the same millisecond and a recording started or stopped while K
\* is held included.
C20_ReleaseEndsGrowing ==
  [][\A k \in PlayedKeys :
       LiveRelease(k) =>
         \A i \in 1..Len(visualNotes') :
           visualNotes'[i].keyId = k => ~Growing(visualNotes'[i])]_vars

\* C21: every accepted key press (the key is not in the pressed-key set)
\* creates exactly one new VisualNote, growing, of that key, recording or
\* not and however soon after the previous press of the key; while
\* recording, the ActiveNote the press creates refers to that note's id.
C21_PressCreatesVisualNote ==
  [][\A p \in Presses :
       LivePress(p[1], p[2]) /\ p[1] \notin pressedKeys =>
         LET created == visualNotes'[Len(visualNotes')]
         IN /\ Len(visualNotes') = Len(visualNotes) + 1
            /\ SubSeq(visualNotes', 1, Len(visualNotes)) = visualNotes
            /\ created.keyId = p[1]
            /\ created.duration = Null
            /\ isRecording =>
                 \E i \in 1..Len(activeNotes') :
                   /\ activeNotes'[i].id = p[1]
                   /\ activeNotes'[i].visualNoteId = created.id]_vars

\* What the live press path does to the pressed keys, the VisualNotes and
\* the ActiveNotes when key k goes down.
SameAsLivePress(k) ==
  IF k \in pressedKeys
    THEN UNCHANGED <<pressedKeys, visualNotes, activeNotes>>
    ELSE /\ pressedKeys' = pressedKeys \cup {k}
         /\ visualNotes' = NotesAfterCreate(visualNotes, k, Null)
         /\ IF isRecording
              THEN \E i \in 1..Len(activeNotes') : activeNotes'[i].id = k
              ELSE UNCHANGED activeNotes

\* What the live release path does to them and to the recorded list when
\* key k goes up.
SameAsLiveRelease(k) ==
  /\ pressedKeys' = pressedKeys \ {k}
  /\ IF isRecording /\ ActiveHas(k)
       THEN /\ Len(recordedNotes') = Len(recordedNotes) + 1
            /\ activeNotes' = ActiveDelete(activeNotes, k)
       ELSE /\ UNCHANGED <<recordedNotes, activeNotes>>
            /\ visualNotes' =
                 endVisualNotes(visualNotes,
                                SelectSeq(visualNotes,
                                          LAMBDA note :
                                            note.keyId = k /\ Growing(note)))

\* C22: a press or release fired by the replay has the effect a live press
\* or release of that key has at that moment on the pressed-key set, the
\* recorder and the note lifecycle: the already-pressed guard, and while
\* recording the creation and the closing of an ActiveNote, included.
C22_ReplayUsesLivePath ==
  [][/\ FireOn => SameAsLivePress(NextTimer.key)
     /\ FireOff => SameAsLiveRelease(NextTimer.key)]_vars

\* The recorded list grows at its end only, or is emptied.
AppendedOrEmptied ==
  \/ recordedNotes' = <<>>
  \/ /\ Len(recordedNotes') >= Len(recordedNotes)
     /\ SubSeq(recordedNotes', 1, Len(recordedNotes)) = recordedNotes

RecordedNotesInRange ==
  \A i \in 1..Len(recordedNotes) :
    /\ recordedNotes[i].startTime >= 0
    /\ recordedNotes[i].duration >= minDuration

\* C23: every RecordedNote has startTime >= 0 and duration >= 100; a
\* RecordedNote is never modified after it is appended, and the recorded list
\* changes only by appending at its end (on release or on stop of the
\* recording) or by being emptied (on clear or on start of a recording).
C23_RecordedNotes ==
  /\ []RecordedNotesInRange
  /\ [][/\ AppendedOrEmptied
        /\ recordedNotes' # recordedNotes =>
             \/ \E k \in PlayedKeys : LiveRelease(k)
             \/ RecordClick
             \/ ClearClick]_vars

\* Two notes recorded, the second appended behind the first.
C23_Witness ==
  /\ Len(recordedNotes) = 2
  /\ recordedNotes[1].startTime <= recordedNotes[2].startTime
  /\ ~isRecording

VisualIds(notes) == { notes[i].id : i \in 1..Len(notes) }

\* The ids of the notes in the active set rise in the order of creation, and
\* the counter is at or above each of them.
IdsInCreationOrder ==
  /\ \A i, j \in 1..Len(visualNotes) :
       i < j => visualNotes[i].id < visualNotes[j].id
  /\ \A i \in 1..Len(visualNotes) : visualNotes[i].id <= noteIdCounter

\* A step never lowers the counter, gives each note it adds an id above every
\* id given before, and leaves the id, key and start of a note that stays
\* in the set as they were.
IdsFreshInStep ==
  /\ noteIdCounter' >= noteIdCounter
  /\ \A i \in 1..Len(visualNotes') :
       \/ visualNotes'[i].id > noteIdCounter
       \/ \E j \in 1..Len(visualNotes) :
            /\ visualNotes[j].id = visualNotes'[i].id
            /\ visualNotes[j].keyId = visualNotes'[i].keyId
            /\ visualNotes[j].startTime = visualNotes'[i].startTime

\* endVisualNote by the replay's timer leaves every other note as it was.
EndChangesOneNote ==
  FireEnd =>
    /\ Len(visualNotes') = Len(visualNotes)
    /\ \A i \in 1..Len(visualNotes) :
         visualNotes[i].id # NextTimer.visualNoteId
           => visualNotes'[i] = visualNotes[i]

\* The part of C24 on identity alone: ids are fresh, rising and never reused,
\* also across clear, and ending a note by id leaves the other notes alone.
C24_IdsFreshAndStable ==
  /\ []IdsInCreationOrder
  /\ [][IdsFreshInStep /\ EndChangesOneNote]_vars

\* C24: VisualNote ids rise strictly in creation order and are never reused,
\* also across clear; re-pressing key K while an earlier VisualNote of K is
\* in the active set adds a new VisualNote with a fresh id and leaves the
\* earlier one unchanged; ending a note by id changes that note only.
C24_VisualNoteIdentity ==
  /\ []IdsInCreationOrder
  /\ [][/\ IdsFreshInStep
        /\ EndChangesOneNote
        /\ \A p \in Presses :
             (/\ LivePress(p[1], p[2])
              /\ p[1] \notin pressedKeys
              /\ \E i \in 1..Len(visualNotes) : visualNotes[i].keyId = p[1])
               => /\ Len(visualNotes') = Len(visualNotes) + 1
                  /\ SubSeq(visualNotes', 1, Len(visualNotes)) = visualNotes
                  /\ visualNotes'[Len(visualNotes')].id \notin
                       VisualIds(visualNotes)
                  /\ visualNotes'[Len(visualNotes')].id > noteIdCounter]_vars

\* C25: for two notes A and B of one pitch with B.startTime >= A.startTime +
\* A.duration, the exported track has A's note-off before B's note-on, so a
\* pitch is never switched on twice before it is switched off.
C25_OffBeforeNextOn ==
  midiFile # <<>> =>
    /\ \A i \in 1..(2 * Len(encNotes)) :
         ReadEvents[PlaceInTrack(i)] = InsertedEvents[i]
    /\ \A a, b \in 1..Len(encNotes) :
         (/\ a # b
          /\ encNotes[a].midiNote = encNotes[b].midiNote
          /\ encNotes[b].startTime
               >= encNotes[a].startTime + encNotes[a].duration)
           => PlaceInTrack(2 * a) < PlaceInTrack(2 * b - 1)

\* C26: recording and replay are never active at the same time.
C26_NeverBothModes == ~(isRecording /\ isReplaying)

\* While a recording runs, each ActiveNote's start is an offset from the
\* epoch of that recording: not negative, not after the present.
ActiveNotesOfThisEpoch ==
  isRecording =>
    \A i \in 1..Len(activeNotes) :
      /\ activeNotes[i].startTime >= 0
      /\ activeNotes[i].startTime <= now - recordingStartTimeRef

NoActiveNotesWhenOff == ~isRecording => activeNotes = <<>>

\* C27: ActiveNotes exist only while recording: whenever recording mode is off
\* the ActiveNote map is empty, so a new recording starts with no ActiveNote
\* measured against an earlier epoch.
C27_ActiveOnlyWhileRecording ==
  /\ []NoActiveNotesWhenOff
  /\ []ActiveNotesOfThisEpoch
  /\ [][RecordClick /\ ~isRecording
          => isRecording' /\ activeNotes' = <<>>]_vars

\* A recording was stopped with a key held: the key's note went to the
\* recorded list and the map is empty.
C27_Witness ==
  /\ ~isRecording
  /\ activeNotes = <<>>
  /\ \E i \in 1..Len(recordedNotes) :
       /\ recordedNotes[i].id \in held
       /\ recordedNotes[i].id \in pressedKeys

Spec == Init /\ [][Next]_vars
SpecKeys == Init /\ [][NextKeys]_vars
SpecMidiIn == Init /\ [][NextMidiIn]_vars
SpecExport == Init /\ [][NextExport]_vars
SpecMidi == InitMidi /\ [][NextMidi]_vars
SpecVlq == InitVlq /\ [][NextVlq]_vars

=============================================================================
